---- MODULE Spec2Model ----
(***************************************************************************)
(* Model of the quantum-internet repository.                               *)
(*                                                                         *)
(*   Spec            QuantumInternetService (quantum_internet_service.py)  *)
(*                   as main() runs it: the run_service task, a second     *)
(*                   task that calls stop_service, transactions arriving   *)
(*                   on the pending list, and the status file, whose write *)
(*                   can fail.                                             *)
(*   ConcurrentSpec  the same service with a second task that also calls   *)
(*                   the public coroutine mine_block.                      *)
(*   LoopSpec        run_service alone, followed over two block intervals. *)
(*   BridgeSpec      QuantumWiFiBridge (quantum_wifi_bridge.py): run() and *)
(*                   clients that post to /entangle.                       *)
(*   MeasureSpec     the bridge with clients that post to /measure and     *)
(*                   /teleport and get /status and /network.               *)
(*   RegistrySpec    the bridge with clients that post to /measure and a   *)
(*                   caller of add_node.                                   *)
(*                                                                         *)
(* Both programs run on one asyncio event loop: a task keeps the loop      *)
(* until it reaches an await that really suspends.  `running` is the task  *)
(* that holds the loop of the service; the handlers of the bridge run      *)
(* while run() is suspended.                                               *)
(***************************************************************************)
EXTENDS Integers, Sequences, FiniteSets, TLC

VARIABLES
    status,                 \* QuantumInternetNode.status, per node
    job_queue,              \* QuantumInternetNode.job_queue, per node
    entangled_with,         \* QuantumInternetNode.entangled_with, per node
    blockchain,             \* QuantumInternetService.blockchain
    pending_transactions,   \* QuantumInternetService.pending_transactions
    is_running,             \* QuantumInternetService.is_running
    pc,                     \* position of each task
    mpc,                    \* position of each task inside mine_block
    block_data,             \* mine_block's local block_data, per task
    consensus_votes,        \* mine_block's local consensus_votes, per task
    running,                \* the task that holds the event loop
    clock,                  \* time.time() / datetime.now(), in seconds
    last_block_time,        \* run_service's local last_block_time
    status_local,           \* run_service's local status (the snapshot built)
    status_file             \* quantum_blockchain_status.json

svars == <<status, job_queue, entangled_with, blockchain, pending_transactions,
           is_running, pc, mpc, block_data, consensus_votes, running, clock,
           last_block_time, status_local, status_file>>

VARIABLES
    bridge_nodes,           \* QuantumWiFiBridge.nodes: node_id -> WiFiQuantumNode
    bridge_order,           \* the keys of QuantumWiFiBridge.nodes, in dict order
    quantum_state,          \* QuantumWiFiBridge.quantum_state
    bpc,                    \* position of QuantumWiFiBridge.run
    pair_index,             \* create_entanglement_over_wifi: the pair being linked
    request_handled,        \* whether the server has handled run's own request
    requests_sent,          \* how many requests the clients have sent
    last_reply              \* the last response a handler has returned

bvars == <<bridge_nodes, bridge_order, quantum_state, bpc, pair_index,
           request_handled, requests_sent, last_reply>>

vars == <<svars, bvars>>

----------------------------------------------------------------------------
(* Bounds *)

MaxBlocks == 2      \* the second task stops calling mine_block at this length
MaxClock == 30      \* asyncio.sleep is not taken at or after this time
MaxQueue == 1       \* largest pending_jobs a backend reports
MaxPending == 1     \* largest number of pending transactions
MaxRequests == 2    \* the clients send at most this many requests
MaxFallbacks == 1   \* at most this many of run's own requests raise
MaxLoopClock == 60  \* asyncio.sleep is not taken at or after this time (LoopSpec)

(* Program constants *)

block_interval == 30
update_interval == 5
MaxNonce == 255
consensusThreshold == 2

----------------------------------------------------------------------------
(* QuantumInternetService.__init__ *)

NodeOrder == <<"ibm_fez", "ibm_torino", "ibm_marrakesh">>

NodeNames == {NodeOrder[i] : i \in 1..Len(NodeOrder)}

num_qubits == [ibm_fez |-> 156, ibm_torino |-> 133, ibm_marrakesh |-> 156]

Tasks == {"svc", "client"}

NoTask == "none"

EmptyDict == [k \in {} |-> 0]

GenesisHash == <<"0", 64>>

(* The keys of a block, in the order sort_keys=True puts them. *)
KeyOrder == <<"consensusVotes", "hash", "miner", "number", "previous_hash",
              "quantum_nonce", "timestamp", "transactions">>

(* The first three characters of a node name, node_name[:3]. *)
NamePrefix3 == [ibm_fez |-> "ibm", ibm_torino |-> "ibm", ibm_marrakesh |-> "ibm"]

----------------------------------------------------------------------------
(* Pure functions *)

(* json.dumps(d, sort_keys=True): the key/value pairs of d in key order. *)
JsonDumpsSorted(d) ==
    LET ks == SelectSeq(KeyOrder, LAMBDA k : k \in DOMAIN d)
    IN  [i \in 1..Len(ks) |-> <<ks[i], d[ks[i]]>>]

(* hashlib.sha256(...).hexdigest(), as a collision-free function of its input. *)
Sha256(text) == <<"sha256", text>>

(* d without the keys in ks. *)
WithoutKeys(d, ks) == [k \in (DOMAIN d) \ ks |-> d[k]]

(* d[k] = v *)
SetKey(d, k, v) == [x \in (DOMAIN d) \cup {k} |-> IF x = k THEN v ELSE d[x]]

Last(s) == s[Len(s)]

(* s.count(x) *)
Count(s, x) == Cardinality({i \in 1..Len(s) : s[i] = x})

(* active_nodes of mine_block, as a list in registry order *)
ActiveNodes == SelectSeq(NodeOrder, LAMBDA n : status[n] = "active")

ActiveSet == {n \in NodeNames : status[n] = "active"}

----------------------------------------------------------------------------
(* mine_block and get_quantum_consensus *)

(* Suspends, were the awaited coroutines to give the loop away. *)
SuspendsYielding(coroutine) == TRUE

(* Whether awaiting the coroutine gives the event loop to another task.    *)
(* mine_quantum_block, validate_block and get_quantum_consensus contain no *)
(* await that suspends: they run to completion inside the caller's step.   *)
Suspends(coroutine) == FALSE

(* QuantumInternetNode.validate_block *)
validate_block(node, block_hash) == TRUE

(* MinerChoices, were the miner drawn from all of self.nodes. *)
MinerChoicesAnyNode == NodeNames

(* The values mining_node can take: random.choice(active_nodes), or the    *)
(* fixed fallback when no node is active.                                  *)
MinerChoices ==
    IF ActiveNodes = <<>>
    THEN {"ibm_fez"}
    ELSE {ActiveNodes[i] : i \in 1..Len(ActiveNodes)}

(* NewBlockData, were previous_hash read from the first block of the chain. *)
NewBlockDataFirstHash(mining_node) ==
    [number        |-> Len(blockchain) + 1,
     timestamp     |-> clock,
     transactions  |-> Len(pending_transactions),
     previous_hash |-> IF blockchain # <<>> THEN blockchain[1]["hash"]
                                            ELSE GenesisHash,
     miner         |-> mining_node]

(* block_number, timestamp, previous_hash and the first block_data dict *)
NewBlockData(mining_node) ==
    [number        |-> Len(blockchain) + 1,
     timestamp     |-> clock,
     transactions  |-> Len(pending_transactions),
     previous_hash |-> IF blockchain # <<>> THEN Last(blockchain)["hash"]
                                            ELSE GenesisHash,
     miner         |-> mining_node]

(* HashBlock, were the hash taken before the nonce is stored. *)
HashBlockBeforeNonce(d, quantum_nonce) ==
    SetKey(SetKey(d, "hash", Sha256(JsonDumpsSorted(d))),
           "quantum_nonce", quantum_nonce)

(* block_data['quantum_nonce'] = quantum_nonce; block_data['hash'] = sha256 *)
HashBlock(d, quantum_nonce) ==
    LET withNonce == SetKey(d, "quantum_nonce", quantum_nonce)
    IN  SetKey(withNonce, "hash", Sha256(JsonDumpsSorted(withNonce)))

(* get_quantum_consensus: one validator entry per node of self.nodes *)
ConsensusOver(nodeSeq, block_hash) ==
    LET validators ==
            [i \in 1..Len(nodeSeq) |->
                [backend |-> nodeSeq[i],
                 vote    |-> IF validate_block(nodeSeq[i], block_hash)
                             THEN "valid" ELSE "invalid",
                 jobId   |-> <<"qjob", clock, NamePrefix3[nodeSeq[i]]>>]]
        valid_count ==
            Cardinality({i \in 1..Len(nodeSeq) :
                            validate_block(nodeSeq[i], block_hash)})
    IN  [total |-> Len(validators), valid |-> valid_count,
         validators |-> validators]

(* get_quantum_consensus, were only the active nodes asked. *)
get_quantum_consensus_active(block_hash) == ConsensusOver(ActiveNodes, block_hash)

get_quantum_consensus(block_hash) == ConsensusOver(NodeOrder, block_hash)

(* ChainAppend, were the block inserted at the front. *)
ChainInsertFront(chain, block) == <<block>> \o chain

(* FinishedBlock, were the votes not stored in the block. *)
FinishedBlockNoVotes(d, votes) == d

(* block_data['consensusVotes'] = consensus_votes *)
FinishedBlock(d, votes) == SetKey(d, "consensusVotes", votes)

(* self.blockchain.append(block_data) *)
ChainAppend(chain, block) == Append(chain, block)

(* A variant of ClearPending that leaves the list as it is. *)
KeepPending(pending) == pending

(* self.pending_transactions = [] *)
ClearPending(pending) == <<>>

(* The nonces random.randint(0, 255) is sampled at. *)
NonceSamples == {0, MaxNonce}

(* A task may take a step when it holds the loop or the loop is free. *)
CanRun(t) == running = t \/ running = NoTask

(* The second task is between two calls: it has not called stop_service    *)
(* yet ("idle"), or it has ("stopped").                                    *)
ClientBetweenCalls == pc["client"] \in {"idle", "stopped"}

(* The call sites of mine_block. *)
AtMineCall(t) ==
    \/ t = "svc" /\ pc[t] = "genesis" /\ blockchain = <<>>
    \/ t = "svc" /\ pc[t] = "mine_check"
                 /\ clock - last_block_time >= block_interval
    \/ t = "client" /\ ClientBetweenCalls /\ Len(blockchain) < MaxBlocks

(* mine_block, lines 144-168: select the miner, read the tip, build        *)
(* block_data, await mine_quantum_block.                                   *)
MineBuild(t) ==
    /\ CanRun(t)
    /\ mpc[t] = "none"
    /\ AtMineCall(t)
    /\ \E mining_node \in MinerChoices :
          block_data' = [block_data EXCEPT ![t] = NewBlockData(mining_node)]
    /\ mpc' = [mpc EXCEPT ![t] = "await_mine"]
    /\ running' = IF Suspends("mine_quantum_block") THEN NoTask ELSE t
    /\ UNCHANGED <<status, job_queue, entangled_with, blockchain,
                   pending_transactions, is_running, pc, consensus_votes,
                   clock, last_block_time, status_local, status_file>>
    /\ UNCHANGED bvars

(* mine_block, lines 170-179: nonce, hash, await get_quantum_consensus. *)
MineVote(t) ==
    /\ CanRun(t)
    /\ mpc[t] = "await_mine"
    /\ \E quantum_nonce \in NonceSamples :
          LET d == HashBlock(block_data[t], quantum_nonce)
          IN  /\ block_data' = [block_data EXCEPT ![t] = d]
              /\ consensus_votes' = [consensus_votes EXCEPT
                                        ![t] = get_quantum_consensus(d["hash"])]
    /\ mpc' = [mpc EXCEPT ![t] = "await_consensus"]
    /\ running' = IF Suspends("get_quantum_consensus") THEN NoTask ELSE t
    /\ UNCHANGED <<status, job_queue, entangled_with, blockchain,
                   pending_transactions, is_running, pc, clock,
                   last_block_time, status_local, status_file>>
    /\ UNCHANGED bvars

(* mine_block, lines 180-190: attach the votes, append, clear the pending  *)
(* list, return to the caller.                                             *)
MineAppend(t) ==
    /\ CanRun(t)
    /\ mpc[t] = "await_consensus"
    /\ blockchain' = ChainAppend(blockchain,
                        FinishedBlock(block_data[t], consensus_votes[t]))
    /\ pending_transactions' = ClearPending(pending_transactions)
    /\ mpc' = [mpc EXCEPT ![t] = "none"]
    /\ block_data' = [block_data EXCEPT ![t] = EmptyDict]
    /\ consensus_votes' = [consensus_votes EXCEPT ![t] = EmptyDict]
    /\ IF t = "svc"
       THEN /\ running' = t
            /\ IF pc[t] = "genesis"
               THEN /\ pc' = [pc EXCEPT ![t] = "go_live"]
                    /\ UNCHANGED last_block_time
               ELSE /\ pc' = [pc EXCEPT ![t] = "decay"]
                    /\ last_block_time' = clock
       ELSE /\ running' = NoTask
            /\ UNCHANGED <<pc, last_block_time>>
    /\ UNCHANGED <<status, job_queue, entangled_with, is_running, clock,
                   status_local, status_file>>
    /\ UNCHANGED bvars

----------------------------------------------------------------------------
(* Startup of run_service *)

(* The results the connectivity probe of one backend can leave in a node:  *)
(* active with the reported pending_jobs, or offline when service.backend  *)
(* or backend.status raises.                                               *)
ProbeResults ==
    {[status |-> "active", job_queue |-> q] : q \in 0..MaxQueue}
        \cup {[status |-> "offline", job_queue |-> 0]}

(* The positions of run_service inside the loop of lines 106-114: before   *)
(* self.service.backend(name) and before backend.status() of each backend. *)
ProbeAt == [ibm_fez |-> "probe_ibm_fez", ibm_torino |-> "probe_ibm_torino",
            ibm_marrakesh |-> "probe_ibm_marrakesh"]

StatusAt == [ibm_fez |-> "status_ibm_fez", ibm_torino |-> "status_ibm_torino",
             ibm_marrakesh |-> "status_ibm_marrakesh"]

(* Where the loop of line 106 goes after the i-th backend. *)
AfterProbe(i) ==
    IF i < Len(NodeOrder) THEN ProbeAt[NodeOrder[i + 1]] ELSE "entangle"

(* initialize_quantum_service, lines 95-103: either QiskitRuntimeService   *)
(* raises and no node is touched, or the backends are probed in turn.      *)
InitializeQuantumService ==
    /\ CanRun("svc")
    /\ pc["svc"] = "start"
    /\ \/ pc' = [pc EXCEPT !["svc"] = "entangle"]
       \/ pc' = [pc EXCEPT !["svc"] = ProbeAt[NodeOrder[1]]]
    /\ running' = "svc"
    /\ UNCHANGED <<status, job_queue, entangled_with, blockchain,
                   pending_transactions, is_running, mpc, block_data,
                   consensus_votes, clock, last_block_time, status_local,
                   status_file>>
    /\ UNCHANGED bvars

(* lines 108-109 for the i-th backend: self.service.backend(name) returns  *)
(* and the node is set active, or it raises and line 114 sets it offline.  *)
ProbeBackend(i) ==
    /\ CanRun("svc")
    /\ i \in 1..Len(NodeOrder)
    /\ pc["svc"] = ProbeAt[NodeOrder[i]]
    /\ \/ /\ status' = [status EXCEPT ![NodeOrder[i]] = "active"]
          /\ pc' = [pc EXCEPT !["svc"] = StatusAt[NodeOrder[i]]]
       \/ /\ status' = [status EXCEPT ![NodeOrder[i]] = "offline"]
          /\ pc' = [pc EXCEPT !["svc"] = AfterProbe(i)]
    /\ running' = "svc"
    /\ UNCHANGED <<job_queue, entangled_with, blockchain, pending_transactions,
                   is_running, mpc, block_data, consensus_votes, clock,
                   last_block_time, status_local, status_file>>
    /\ UNCHANGED bvars

(* line 110 for the i-th backend: backend.status() returns and job_queue   *)
(* is set, or it raises and line 114 sets the node offline.                *)
ProbeStatus(i) ==
    /\ CanRun("svc")
    /\ i \in 1..Len(NodeOrder)
    /\ pc["svc"] = StatusAt[NodeOrder[i]]
    /\ \E probe \in ProbeResults :
          /\ status' = [status EXCEPT ![NodeOrder[i]] = probe.status]
          /\ job_queue' = [job_queue EXCEPT ![NodeOrder[i]] = probe.job_queue]
    /\ pc' = [pc EXCEPT !["svc"] = AfterProbe(i)]
    /\ running' = "svc"
    /\ UNCHANGED <<entangled_with, blockchain, pending_transactions, is_running,
                   mpc, block_data, consensus_votes, clock, last_block_time,
                   status_local, status_file>>
    /\ UNCHANGED bvars

(* for i, node_a in enumerate(nodes): for node_b in nodes[i+1:] *)
RECURSIVE AllPairs(_)
AllPairs(s) ==
    IF Len(s) < 2 THEN <<>>
    ELSE [i \in 1..(Len(s) - 1) |-> <<s[1], s[i + 1]>>] \o AllPairs(Tail(s))

(* adj[a].append(b); adj[b].append(a) *)
LinkBoth(adj, a, b) ==
    LET first == [adj EXCEPT ![a] = Append(@, b)]
    IN  [first EXCEPT ![b] = Append(@, a)]

RECURSIVE LinkAll(_, _)
LinkAll(adj, pairs) ==
    IF pairs = <<>> THEN adj
    ELSE LinkAll(LinkBoth(adj, pairs[1][1], pairs[1][2]), Tail(pairs))

(* create_quantum_entanglement_network *)
CreateQuantumEntanglementNetwork ==
    /\ CanRun("svc")
    /\ pc["svc"] = "entangle"
    /\ entangled_with' = LinkAll(entangled_with, AllPairs(NodeOrder))
    /\ pc' = [pc EXCEPT !["svc"] = "activate"]
    /\ running' = "svc"
    /\ UNCHANGED <<status, job_queue, blockchain, pending_transactions,
                   is_running, mpc, block_data, consensus_votes, clock,
                   last_block_time, status_local, status_file>>
    /\ UNCHANGED bvars

(* A variant of ActivateInitializing that leaves every status as it is. *)
ActivateInitializingNone ==
    /\ CanRun("svc")
    /\ pc["svc"] = "activate"
    /\ pc' = [pc EXCEPT !["svc"] = "genesis"]
    /\ running' = "svc"
    /\ UNCHANGED <<status, job_queue, entangled_with, blockchain,
                   pending_transactions, is_running, mpc, block_data,
                   consensus_votes, clock, last_block_time, status_local,
                   status_file>>
    /\ UNCHANGED bvars

(* run_service lines 289-292 *)
ActivateInitializing ==
    /\ CanRun("svc")
    /\ pc["svc"] = "activate"
    /\ status' = [n \in NodeNames |->
                     IF status[n] = "initializing" THEN "active" ELSE status[n]]
    /\ pc' = [pc EXCEPT !["svc"] = "genesis"]
    /\ running' = "svc"
    /\ UNCHANGED <<job_queue, entangled_with, blockchain, pending_transactions,
                   is_running, mpc, block_data, consensus_votes, clock,
                   last_block_time, status_local, status_file>>
    /\ UNCHANGED bvars

(* run_service line 295 when the chain is not empty: no genesis block *)
SkipGenesis ==
    /\ CanRun("svc")
    /\ pc["svc"] = "genesis"
    /\ mpc["svc"] = "none"
    /\ blockchain # <<>>
    /\ pc' = [pc EXCEPT !["svc"] = "go_live"]
    /\ running' = "svc"
    /\ UNCHANGED <<status, job_queue, entangled_with, blockchain,
                   pending_transactions, is_running, mpc, block_data,
                   consensus_votes, clock, last_block_time, status_local,
                   status_file>>
    /\ UNCHANGED bvars

(* run_service lines 300-311 *)
GoLive ==
    /\ CanRun("svc")
    /\ pc["svc"] = "go_live"
    /\ is_running' = TRUE
    /\ last_block_time' = clock
    /\ pc' = [pc EXCEPT !["svc"] = "loop"]
    /\ running' = "svc"
    /\ UNCHANGED <<status, job_queue, entangled_with, blockchain,
                   pending_transactions, mpc, block_data, consensus_votes,
                   clock, status_local, status_file>>
    /\ UNCHANGED bvars

----------------------------------------------------------------------------
(* The periodic loop of run_service *)

RECURSIVE SumTransactions(_)
SumTransactions(chain) ==
    IF chain = <<>> THEN 0
    ELSE chain[1]["transactions"] + SumTransactions(Tail(chain))

NoneValue == [none |-> TRUE]

(* A variant of get_network_status that counts the active nodes as the     *)
(* validators.                                                             *)
get_network_status_active_only ==
    LET validators ==
            [i \in 1..Len(NodeOrder) |->
                [name          |-> NodeOrder[i],
                 qubits        |-> num_qubits[NodeOrder[i]],
                 queue         |-> job_queue[NodeOrder[i]],
                 status        |-> status[NodeOrder[i]],
                 entangledWith |-> entangled_with[NodeOrder[i]]]]
        block == Last(blockchain)
        latest_block ==
            IF blockchain # <<>>
            THEN [number         |-> block["number"],
                  hash           |-> block["hash"],
                  quantumNonce   |-> block["quantum_nonce"],
                  timestamp      |-> block["timestamp"],
                  transactions   |-> block["transactions"],
                  miningBackend  |-> block["miner"],
                  consensusVotes |-> block["consensusVotes"]]
            ELSE NoneValue
    IN  [network |->
            [validators         |-> validators,
             totalValidators    |-> Cardinality(ActiveSet),
             consensusThreshold |-> consensusThreshold],
         blockchain |->
            [latestBlock         |-> latest_block,
             totalBlocks         |-> Len(blockchain),
             totalTransactions   |-> SumTransactions(blockchain),
             pendingTransactions |-> Len(pending_transactions)],
         quantum |->
            [activeJobs |-> Cardinality(ActiveSet)],
         timestamp |-> clock]

(* get_network_status *)
get_network_status ==
    LET validators ==
            [i \in 1..Len(NodeOrder) |->
                [name          |-> NodeOrder[i],
                 qubits        |-> num_qubits[NodeOrder[i]],
                 queue         |-> job_queue[NodeOrder[i]],
                 status        |-> status[NodeOrder[i]],
                 entangledWith |-> entangled_with[NodeOrder[i]]]]
        block == Last(blockchain)
        latest_block ==
            IF blockchain # <<>>
            THEN [number         |-> block["number"],
                  hash           |-> block["hash"],
                  quantumNonce   |-> block["quantum_nonce"],
                  timestamp      |-> block["timestamp"],
                  transactions   |-> block["transactions"],
                  miningBackend  |-> block["miner"],
                  consensusVotes |-> block["consensusVotes"]]
            ELSE NoneValue
    IN  [network |->
            [validators         |-> validators,
             totalValidators    |-> Len(validators),
             consensusThreshold |-> consensusThreshold],
         blockchain |->
            [latestBlock         |-> latest_block,
             totalBlocks         |-> Len(blockchain),
             totalTransactions   |-> SumTransactions(blockchain),
             pendingTransactions |-> Len(pending_transactions)],
         quantum |->
            [activeJobs |-> Cardinality(ActiveSet)],
         timestamp |-> clock]

(* A variant of LoopCheck that goes to the mining step without writing the *)
(* status file.                                                            *)
LoopCheckNoPublish ==
    /\ CanRun("svc")
    /\ pc["svc"] = "loop"
    /\ IF is_running
       THEN /\ pc' = [pc EXCEPT !["svc"] = "mine_check"]
            /\ running' = "svc"
       ELSE /\ pc' = [pc EXCEPT !["svc"] = "returned"]
            /\ running' = NoTask
    /\ UNCHANGED <<status, job_queue, entangled_with, blockchain,
                   pending_transactions, is_running, mpc, block_data,
                   consensus_votes, clock, last_block_time, status_local,
                   status_file>>
    /\ UNCHANGED bvars

(* while self.is_running: the loop is entered or run_service returns *)
LoopCheck ==
    /\ CanRun("svc")
    /\ pc["svc"] = "loop"
    /\ IF is_running
       THEN /\ pc' = [pc EXCEPT !["svc"] = "publish"]
            /\ running' = "svc"
       ELSE /\ pc' = [pc EXCEPT !["svc"] = "returned"]
            /\ running' = NoTask
    /\ UNCHANGED <<status, job_queue, entangled_with, blockchain,
                   pending_transactions, is_running, mpc, block_data,
                   consensus_votes, clock, last_block_time, status_local,
                   status_file>>
    /\ UNCHANGED bvars

(* lines 316-317: build the snapshot, open the file for writing (truncate) *)
PublishOpen ==
    /\ CanRun("svc")
    /\ pc["svc"] = "publish"
    /\ status_local' = get_network_status
    /\ status_file' = [kind |-> "empty"]
    /\ pc' = [pc EXCEPT !["svc"] = "dump"]
    /\ running' = "svc"
    /\ UNCHANGED <<status, job_queue, entangled_with, blockchain,
                   pending_transactions, is_running, mpc, block_data,
                   consensus_votes, clock, last_block_time>>
    /\ UNCHANGED bvars

(* line 318 and the close of the with block: the snapshot is in the file *)
PublishDump ==
    /\ CanRun("svc")
    /\ pc["svc"] = "dump"
    /\ status_file' = [kind |-> "complete", data |-> status_local]
    /\ pc' = [pc EXCEPT !["svc"] = "mine_check"]
    /\ running' = "svc"
    /\ UNCHANGED <<status, job_queue, entangled_with, blockchain,
                   pending_transactions, is_running, mpc, block_data,
                   consensus_votes, clock, last_block_time, status_local>>
    /\ UNCHANGED bvars

(* line 317 raises OSError (the file cannot be opened for writing): the    *)
(* file is as it was; the try of line 313 has no handler for it, so the    *)
(* exception leaves run_service                                            *)
PublishOpenFails ==
    /\ CanRun("svc")
    /\ pc["svc"] = "publish"
    /\ status_local' = get_network_status
    /\ pc' = [pc EXCEPT !["svc"] = "crashed"]
    /\ running' = NoTask
    /\ UNCHANGED <<status, job_queue, entangled_with, blockchain,
                   pending_transactions, is_running, mpc, block_data,
                   consensus_votes, clock, last_block_time, status_file>>
    /\ UNCHANGED bvars

(* line 318 or the close of the with block raises OSError (the device is   *)
(* full): the file holds a proper prefix of the text, and the exception    *)
(* leaves run_service                                                      *)
PublishDumpFails ==
    /\ CanRun("svc")
    /\ pc["svc"] = "dump"
    /\ status_file' = [kind |-> "partial"]
    /\ pc' = [pc EXCEPT !["svc"] = "crashed"]
    /\ running' = NoTask
    /\ UNCHANGED <<status, job_queue, entangled_with, blockchain,
                   pending_transactions, is_running, mpc, block_data,
                   consensus_votes, clock, last_block_time, status_local>>
    /\ UNCHANGED bvars

(* line 321 when the block interval has not elapsed *)
MineNotDue ==
    /\ CanRun("svc")
    /\ pc["svc"] = "mine_check"
    /\ mpc["svc"] = "none"
    /\ ~(clock - last_block_time >= block_interval)
    /\ pc' = [pc EXCEPT !["svc"] = "decay"]
    /\ running' = "svc"
    /\ UNCHANGED <<status, job_queue, entangled_with, blockchain,
                   pending_transactions, is_running, mpc, block_data,
                   consensus_votes, clock, last_block_time, status_local,
                   status_file>>
    /\ UNCHANGED bvars

(* A variant of DecayOne without the floor. *)
DecayOneUnfloored(q) == q - 1

(* node.job_queue = max(0, node.job_queue - 1) *)
DecayOne(q) == IF q - 1 > 0 THEN q - 1 ELSE 0

(* lines 326-329 *)
DecayQueues ==
    /\ CanRun("svc")
    /\ pc["svc"] = "decay"
    /\ job_queue' = [n \in NodeNames |->
                        IF status[n] = "active" THEN DecayOne(job_queue[n])
                                                ELSE job_queue[n]]
    /\ pc' = [pc EXCEPT !["svc"] = "sleep"]
    /\ running' = "svc"
    /\ UNCHANGED <<status, entangled_with, blockchain, pending_transactions,
                   is_running, mpc, block_data, consensus_votes, clock,
                   last_block_time, status_local, status_file>>
    /\ UNCHANGED bvars

(* line 331: await asyncio.sleep(update_interval) gives the loop away *)
Sleep ==
    /\ CanRun("svc")
    /\ pc["svc"] = "sleep"
    /\ pc' = [pc EXCEPT !["svc"] = "sleeping"]
    /\ running' = NoTask
    /\ UNCHANGED <<status, job_queue, entangled_with, blockchain,
                   pending_transactions, is_running, mpc, block_data,
                   consensus_votes, clock, last_block_time, status_local,
                   status_file>>
    /\ UNCHANGED bvars

(* How long a sleep can last: the interval asked for, or longer. *)
SleepDurations == {update_interval, block_interval}

(* the sleep is over: the task is resumed, time has passed *)
Wake ==
    /\ running = NoTask
    /\ pc["svc"] = "sleeping"
    /\ \E d \in SleepDurations :
          /\ clock + d <= MaxClock
          /\ clock' = clock + d
    /\ pc' = [pc EXCEPT !["svc"] = "loop"]
    /\ running' = "svc"
    /\ UNCHANGED <<status, job_queue, entangled_with, blockchain,
                   pending_transactions, is_running, mpc, block_data,
                   consensus_votes, last_block_time, status_local, status_file>>
    /\ UNCHANGED bvars

(* the same wake-up in a run that is followed over two block intervals *)
WakeLate ==
    /\ running = NoTask
    /\ pc["svc"] = "sleeping"
    /\ \E d \in SleepDurations :
          /\ clock + d <= MaxLoopClock
          /\ clock' = clock + d
    /\ pc' = [pc EXCEPT !["svc"] = "loop"]
    /\ running' = "svc"
    /\ UNCHANGED <<status, job_queue, entangled_with, blockchain,
                   pending_transactions, is_running, mpc, block_data,
                   consensus_votes, last_block_time, status_local, status_file>>
    /\ UNCHANGED bvars

----------------------------------------------------------------------------
(* The second task *)

(* stop_service *)
StopService ==
    /\ running = NoTask
    /\ ClientBetweenCalls
    /\ mpc["client"] = "none"
    /\ is_running' = FALSE
    /\ pc' = [pc EXCEPT !["client"] = "stopped"]
    /\ UNCHANGED <<status, job_queue, entangled_with, blockchain,
                   pending_transactions, mpc, block_data, consensus_votes,
                   running, clock, last_block_time, status_local, status_file>>
    /\ UNCHANGED bvars

(* A transaction is put on the public list pending_transactions. *)
AddTransaction ==
    /\ running = NoTask
    /\ ClientBetweenCalls
    /\ mpc["client"] = "none"
    /\ Len(pending_transactions) < MaxPending
    /\ pending_transactions' = Append(pending_transactions, "tx")
    /\ UNCHANGED <<status, job_queue, entangled_with, blockchain, is_running,
                   pc, mpc, block_data, consensus_votes, running, clock,
                   last_block_time, status_local, status_file>>
    /\ UNCHANGED bvars

----------------------------------------------------------------------------
(* QuantumWiFiBridge *)

(* The node ids discover_nodes_on_network registers, in order. *)
BridgeNodeOrder == <<"ibm_fez", "ibm_torino", "ibm_marrakesh", "local_node">>

quantum_backend_of ==
    [ibm_fez |-> "ibm_fez", ibm_torino |-> "ibm_torino",
     ibm_marrakesh |-> "ibm_marrakesh", local_node |-> "simulator"]

(* The bodies of the POST /entangle requests the clients send: two         *)
(* registered nodes, one node twice, an unknown node on either side.       *)
EntangleRequests ==
    {<<"ibm_fez", "ibm_torino">>, <<"ibm_fez", "ibm_fez">>,
     <<"ibm_fez", "unknown_node">>, <<"unknown_node", "ibm_fez">>}

(* WiFiQuantumNode.__init__ *)
WiFiQuantumNode(node_id, quantum_backend) ==
    [node_id |-> node_id, quantum_backend |-> quantum_backend,
     entangled_nodes |-> <<>>, measurement_results |-> <<>>]

(* add_node: self.nodes[node_id] = node, on the dict and its key order *)
add_node(reg, node_id, quantum_backend) ==
    [nodes |-> SetKey(reg.nodes, node_id, WiFiQuantumNode(node_id, quantum_backend)),
     order |-> IF node_id \in DOMAIN reg.nodes THEN reg.order
                                               ELSE Append(reg.order, node_id)]

RECURSIVE AddAll(_, _)
AddAll(reg, ids) ==
    IF ids = <<>> THEN reg
    ELSE AddAll(add_node(reg, ids[1], quantum_backend_of[ids[1]]), Tail(ids))

(* A variant of LinkNodes that records the link on the first node only. *)
LinkNodesOneSided(nodes, a, b) ==
    [nodes EXCEPT ![a].entangled_nodes = Append(@, b)]

(* self.nodes[a].entangled_nodes.append(b); self.nodes[b]...append(a) *)
LinkNodes(nodes, a, b) ==
    LET first == [nodes EXCEPT ![a].entangled_nodes = Append(@, b)]
    IN  [first EXCEPT ![b].entangled_nodes = Append(@, a)]

(* A variant of handle_entangle that looks up node_a only: an unknown       *)
(* node_b is recorded in the pair and in node_a's list.                    *)
handle_entangle_first_only(node_a, node_b) ==
    IF node_a \notin DOMAIN bridge_nodes
    THEN [nodes |-> bridge_nodes,
          quantum_state |-> quantum_state,
          reply |-> [op |-> "entangle", node_a |-> node_a, node_b |-> node_b,
                     status |-> 404, error |-> "Nodes not found"]]
    ELSE LET entanglement ==
                 [id         |-> <<"ent", Len(quantum_state.entangled_pairs)>>,
                  nodes      |-> <<node_a, node_b>>,
                  state      |-> "bell_phi_plus",
                  created_at |-> clock,
                  strength   |-> 1]
         IN  [nodes |-> [bridge_nodes EXCEPT
                            ![node_a].entangled_nodes = Append(@, node_b)],
              quantum_state |->
                  [quantum_state EXCEPT !.entangled_pairs = Append(@, entanglement)],
              reply |-> [op |-> "entangle", node_a |-> node_a, node_b |-> node_b,
                         status |-> 200, success |-> TRUE,
                         entanglement |-> entanglement]]

(* handle_entangle, lines 250-276, as the new nodes, the new quantum_state *)
(* and the response.                                                       *)
handle_entangle(node_a, node_b) ==
    IF node_a \notin DOMAIN bridge_nodes \/ node_b \notin DOMAIN bridge_nodes
    THEN [nodes |-> bridge_nodes,
          quantum_state |-> quantum_state,
          reply |-> [op |-> "entangle", node_a |-> node_a, node_b |-> node_b,
                     status |-> 404, error |-> "Nodes not found"]]
    ELSE LET entanglement ==
                 [id         |-> <<"ent", Len(quantum_state.entangled_pairs)>>,
                  nodes      |-> <<node_a, node_b>>,
                  state      |-> "bell_phi_plus",
                  created_at |-> clock,
                  strength   |-> 1]
         IN  [nodes |-> LinkNodes(bridge_nodes, node_a, node_b),
              quantum_state |->
                  [quantum_state EXCEPT !.entangled_pairs = Append(@, entanglement)],
              reply |-> [op |-> "entangle", node_a |-> node_a, node_b |-> node_b,
                         status |-> 200, success |-> TRUE,
                         entanglement |-> entanglement]]

(* The pairs create_entanglement_over_wifi walks through. *)
StartupPairs == AllPairs(bridge_order)

(* start_server: from now on the server accepts requests *)
StartServer ==
    /\ bpc = "init"
    /\ bpc' = "discover"
    /\ UNCHANGED <<bridge_nodes, bridge_order, quantum_state, pair_index,
                   request_handled, requests_sent, last_reply>>
    /\ UNCHANGED svars

(* discover_nodes_on_network: four add_node calls *)
DiscoverNodes ==
    /\ bpc = "discover"
    /\ LET reg == AddAll([nodes |-> bridge_nodes, order |-> bridge_order],
                         BridgeNodeOrder)
       IN  /\ bridge_nodes' = reg.nodes
           /\ bridge_order' = reg.order
    /\ bpc' = "entangle"
    /\ pair_index' = 1
    /\ UNCHANGED <<quantum_state, request_handled, requests_sent, last_reply>>
    /\ UNCHANGED svars

(* create_entanglement_over_wifi, lines 425-430: the request for the next  *)
(* pair is sent and run() waits for the response                           *)
StartupPost ==
    /\ bpc = "entangle"
    /\ pair_index <= Len(StartupPairs)
    /\ bpc' = "posted"
    /\ request_handled' = FALSE
    /\ UNCHANGED <<bridge_nodes, bridge_order, quantum_state, pair_index,
                   requests_sent, last_reply>>
    /\ UNCHANGED svars

(* the server handles run()'s own request *)
HandleStartupRequest ==
    /\ bpc = "posted"
    /\ ~request_handled
    /\ LET r == handle_entangle(StartupPairs[pair_index][1],
                                StartupPairs[pair_index][2])
       IN  /\ bridge_nodes' = r.nodes
           /\ quantum_state' = r.quantum_state
           /\ last_reply' = r.reply
    /\ request_handled' = TRUE
    /\ UNCHANGED <<bridge_order, bpc, pair_index, requests_sent>>
    /\ UNCHANGED svars

(* lines 431-433: the response arrives *)
StartupReply ==
    /\ bpc = "posted"
    /\ request_handled
    /\ bpc' = "entangle"
    /\ pair_index' = pair_index + 1
    /\ UNCHANGED <<bridge_nodes, bridge_order, quantum_state, request_handled,
                   requests_sent, last_reply>>
    /\ UNCHANGED svars

(* How many pairs the direct call has recorded: those have no id. *)
FallbackCount ==
    Cardinality({i \in 1..Len(quantum_state.entangled_pairs) :
                    "id" \notin DOMAIN quantum_state.entangled_pairs[i]})

(* lines 434-442: anything raised inside the try, before or after the      *)
(* server has handled the request, ends in the direct call                 *)
StartupFallback ==
    /\ bpc = "posted"
    /\ FallbackCount < MaxFallbacks
    /\ LET node_a == StartupPairs[pair_index][1]
           node_b == StartupPairs[pair_index][2]
           entanglement == [nodes |-> <<node_a, node_b>>,
                            state |-> "bell_phi_plus"]
       IN  /\ quantum_state' =
                  [quantum_state EXCEPT !.entangled_pairs = Append(@, entanglement)]
           /\ bridge_nodes' = LinkNodes(bridge_nodes, node_a, node_b)
    /\ bpc' = "entangle"
    /\ pair_index' = pair_index + 1
    /\ UNCHANGED <<bridge_order, request_handled, requests_sent, last_reply>>
    /\ UNCHANGED svars

(* run(), lines 477-497: the startup is over, run() sleeps in its loop *)
BridgeLive ==
    /\ bpc = "entangle"
    /\ pair_index > Len(StartupPairs)
    /\ bpc' = "live"
    /\ UNCHANGED <<bridge_nodes, bridge_order, quantum_state, pair_index,
                   request_handled, requests_sent, last_reply>>
    /\ UNCHANGED svars

(* The server runs a handler only while run() is suspended. *)
ServerCanHandle == bpc \in {"posted", "live"}

(* A variant of HandleEntangle that answers a request for two nodes that   *)
(* are linked already without recording a further pair.                    *)
HandleEntangleDeduplicating(node_a, node_b) ==
    /\ ServerCanHandle
    /\ requests_sent < MaxRequests
    /\ requests_sent' = requests_sent + 1
    /\ LET r == handle_entangle(node_a, node_b)
           linked == /\ node_a \in DOMAIN bridge_nodes
                     /\ \E k \in 1..Len(bridge_nodes[node_a].entangled_nodes) :
                            bridge_nodes[node_a].entangled_nodes[k] = node_b
       IN  /\ bridge_nodes' = IF linked THEN bridge_nodes ELSE r.nodes
           /\ quantum_state' = IF linked THEN quantum_state ELSE r.quantum_state
           /\ last_reply' = r.reply
    /\ UNCHANGED <<bridge_order, bpc, pair_index, request_handled>>
    /\ UNCHANGED svars

(* POST /entangle from a client *)
HandleEntangle(node_a, node_b) ==
    /\ ServerCanHandle
    /\ requests_sent < MaxRequests
    /\ requests_sent' = requests_sent + 1
    /\ LET r == handle_entangle(node_a, node_b)
       IN  /\ bridge_nodes' = r.nodes
           /\ quantum_state' = r.quantum_state
           /\ last_reply' = r.reply
    /\ UNCHANGED <<bridge_order, bpc, pair_index, request_handled>>
    /\ UNCHANGED svars

(* The bodies of the POST /measure requests the clients send, as node_id   *)
(* and entanglement_id: a registered node and the first id the server      *)
(* hands out, an unknown node, an id the server never hands out.           *)
MeasureRequests ==
    {<<"ibm_fez", <<"ent", 0>>>>, <<"unknown_node", <<"ent", 0>>>>,
     <<"ibm_fez", <<"ent", 99>>>>}

(* random.choice([0, 1]) *)
MeasurementOutcomes == {0, 1}

(* A variant of handle_measure that keeps only the newest record in the    *)
(* history.                                                                *)
handle_measure_overwriting(node_id, entanglement_id, result) ==
    LET measurement == [node         |-> node_id,
                        entanglement |-> entanglement_id,
                        result       |-> result,
                        timestamp    |-> clock]
    IN  [nodes |-> IF node_id \in DOMAIN bridge_nodes
                   THEN [bridge_nodes EXCEPT
                            ![node_id].measurement_results = Append(@, measurement)]
                   ELSE bridge_nodes,
         quantum_state |->
             [quantum_state EXCEPT !.measurement_history = <<measurement>>],
         reply |-> [op |-> "measure", status |-> 200, success |-> TRUE,
                    measurement |-> measurement]]

(* handle_measure, lines 280-305, for the drawn result, as the new nodes,  *)
(* the new quantum_state and the response.                                 *)
handle_measure(node_id, entanglement_id, result) ==
    LET measurement == [node         |-> node_id,
                        entanglement |-> entanglement_id,
                        result       |-> result,
                        timestamp    |-> clock]
    IN  [nodes |-> IF node_id \in DOMAIN bridge_nodes
                   THEN [bridge_nodes EXCEPT
                            ![node_id].measurement_results = Append(@, measurement)]
                   ELSE bridge_nodes,
         quantum_state |->
             [quantum_state EXCEPT !.measurement_history = Append(@, measurement)],
         reply |-> [op |-> "measure", status |-> 200, success |-> TRUE,
                    measurement |-> measurement]]

(* POST /measure from a client *)
HandleMeasure(node_id, entanglement_id) ==
    /\ ServerCanHandle
    /\ requests_sent < MaxRequests
    /\ requests_sent' = requests_sent + 1
    /\ \E result \in MeasurementOutcomes :
          LET r == handle_measure(node_id, entanglement_id, result)
          IN  /\ bridge_nodes' = r.nodes
              /\ quantum_state' = r.quantum_state
              /\ last_reply' = r.reply
    /\ UNCHANGED <<bridge_order, bpc, pair_index, request_handled>>
    /\ UNCHANGED svars

(* The bodies of the POST /teleport requests the clients send, as source   *)
(* and destination.                                                        *)
TeleportRequests ==
    {<<"ibm_fez", "ibm_marrakesh">>, <<"ibm_fez", "unknown_node">>,
     <<"unknown_node", "ibm_fez">>}

(* A variant of handle_teleport that sends the last measured bit, twice,   *)
(* once a measurement has been recorded.                                   *)
handle_teleport_measured(source, destination) ==
    LET history == quantum_state.measurement_history
    IN  [op |-> "teleport", status |-> 200, success |-> TRUE,
         teleportation |->
             [source         |-> source,
              destination    |-> destination,
              classical_bits |-> IF history = <<>> THEN "01"
                                 ELSE IF history[Len(history)].result = 0
                                      THEN "00" ELSE "11",
              timestamp      |-> clock]]

(* handle_teleport, lines 309-327: the response *)
handle_teleport(source, destination) ==
    [op |-> "teleport", status |-> 200, success |-> TRUE,
     teleportation |-> [source         |-> source,
                        destination    |-> destination,
                        classical_bits |-> "01",
                        timestamp      |-> clock]]

(* POST /teleport from a client *)
HandleTeleport(source, destination) ==
    /\ ServerCanHandle
    /\ requests_sent < MaxRequests
    /\ requests_sent' = requests_sent + 1
    /\ last_reply' = handle_teleport(source, destination)
    /\ UNCHANGED <<bridge_nodes, bridge_order, quantum_state, bpc, pair_index,
                   request_handled>>
    /\ UNCHANGED svars

(* QuantumWiFiBridge.__init__: local_port, as main() passes it *)
local_port == 8765

(* A variant of handle_status that counts the pairs that carry an id. *)
handle_status_ids_only ==
    [op |-> "status", status |-> 200,
     body |-> [status          |-> "online",
               nodes           |-> Cardinality(DOMAIN bridge_nodes),
               entangled_pairs |-> Len(quantum_state.entangled_pairs) - FallbackCount,
               port            |-> local_port,
               timestamp       |-> clock]]

(* handle_status, lines 238-245: the response.  local_ip is what the       *)
(* network interfaces of the host report and is left out.                  *)
handle_status ==
    [op |-> "status", status |-> 200,
     body |-> [status          |-> "online",
               nodes           |-> Cardinality(DOMAIN bridge_nodes),
               entangled_pairs |-> Len(quantum_state.entangled_pairs),
               port            |-> local_port,
               timestamp       |-> clock]]

(* GET /status from a client *)
HandleStatus ==
    /\ ServerCanHandle
    /\ requests_sent < MaxRequests
    /\ requests_sent' = requests_sent + 1
    /\ last_reply' = handle_status
    /\ UNCHANGED <<bridge_nodes, bridge_order, quantum_state, bpc, pair_index,
                   request_handled>>
    /\ UNCHANGED svars

(* handle_network_info, lines 331-346: the response, with the fields of a  *)
(* node the model carries (ip, port and is_local never change).            *)
handle_network_info ==
    [op |-> "network", status |-> 200,
     body |-> [nodes |-> [node_id \in DOMAIN bridge_nodes |->
                            [quantum_backend |-> bridge_nodes[node_id].quantum_backend,
                             entangled_with  |-> bridge_nodes[node_id].entangled_nodes]],
               quantum_state |-> quantum_state]]

(* GET /network from a client *)
HandleNetworkInfo ==
    /\ ServerCanHandle
    /\ requests_sent < MaxRequests
    /\ requests_sent' = requests_sent + 1
    /\ last_reply' = handle_network_info
    /\ UNCHANGED <<bridge_nodes, bridge_order, quantum_state, bpc, pair_index,
                   request_handled>>
    /\ UNCHANGED svars

(* The node ids a caller of add_node registers once the bridge has done    *)
(* its own discovery: ids that are in the registry already.                *)
RegisterRequests == {"ibm_fez", "ibm_torino"}

(* add_node called by another coroutine of the loop while run() sleeps in  *)
(* its loop; the call returns None                                         *)
AddNode(node_id) ==
    /\ bpc = "live"
    /\ LET reg == add_node([nodes |-> bridge_nodes, order |-> bridge_order],
                           node_id, quantum_backend_of[node_id])
       IN  /\ bridge_nodes' = reg.nodes
           /\ bridge_order' = reg.order
    /\ last_reply' = [op |-> "add_node", node_id |-> node_id, result |-> NoneValue]
    /\ UNCHANGED <<quantum_state, bpc, pair_index, request_handled, requests_sent>>
    /\ UNCHANGED svars

BridgeVarsInit ==
    /\ bridge_nodes = EmptyDict
    /\ bridge_order = <<>>
    /\ quantum_state = [entangled_pairs |-> <<>>, measurement_history |-> <<>>,
                        network_topology |-> EmptyDict]
    /\ bpc = "init"
    /\ pair_index = 0
    /\ request_handled = FALSE
    /\ requests_sent = 0
    /\ last_reply = [op |-> "none"]

----------------------------------------------------------------------------
(* The service specification *)

ServiceInit ==
    /\ status = [n \in NodeNames |-> "initializing"]
    /\ job_queue = [n \in NodeNames |-> 0]
    /\ entangled_with = [n \in NodeNames |-> <<>>]
    /\ blockchain = <<>>
    /\ pending_transactions = <<>>
    /\ is_running = FALSE
    /\ pc = [t \in Tasks |-> IF t = "svc" THEN "start" ELSE "idle"]
    /\ mpc = [t \in Tasks |-> "none"]
    /\ block_data = [t \in Tasks |-> EmptyDict]
    /\ consensus_votes = [t \in Tasks |-> EmptyDict]
    /\ running = NoTask
    /\ clock = 0
    /\ last_block_time = 0
    /\ status_local = NoneValue
    /\ status_file = [kind |-> "absent"]

Init == ServiceInit /\ BridgeVarsInit

(* run_service as main() starts it, a second task that calls stop_service,  *)
(* transactions arriving on the pending list, and writes of the status     *)
(* file that can fail.  The chain is empty when run_service reaches line   *)
(* 295, so the genesis block is always mined.                              *)
Next ==
    \/ InitializeQuantumService
    \/ \E i \in 1..Len(NodeOrder) : ProbeBackend(i)
    \/ \E i \in 1..Len(NodeOrder) : ProbeStatus(i)
    \/ CreateQuantumEntanglementNetwork
    \/ ActivateInitializing
    \/ GoLive
    \/ LoopCheck
    \/ PublishOpen
    \/ PublishDump
    \/ PublishOpenFails
    \/ PublishDumpFails
    \/ MineNotDue
    \/ DecayQueues
    \/ Sleep
    \/ Wake
    \/ MineBuild("svc")
    \/ MineVote("svc")
    \/ MineAppend("svc")
    \/ StopService
    \/ AddTransaction

Spec == Init /\ [][Next]_vars

(* run_service and a second task of the same loop that calls mine_block   *)
(* and stop_service; the pending list stays as __init__ left it.           *)
ConcurrentNext ==
    \/ InitializeQuantumService
    \/ \E i \in 1..Len(NodeOrder) : ProbeBackend(i)
    \/ \E i \in 1..Len(NodeOrder) : ProbeStatus(i)
    \/ CreateQuantumEntanglementNetwork
    \/ ActivateInitializing
    \/ SkipGenesis
    \/ GoLive
    \/ LoopCheck
    \/ PublishOpen
    \/ PublishDump
    \/ MineNotDue
    \/ DecayQueues
    \/ Sleep
    \/ Wake
    \/ \E t \in Tasks : MineBuild(t)
    \/ \E t \in Tasks : MineVote(t)
    \/ \E t \in Tasks : MineAppend(t)
    \/ StopService

ConcurrentSpec == Init /\ [][ConcurrentNext]_vars

(* run_service alone, as main() starts it, followed over two block         *)
(* intervals.                                                              *)
LoopNext ==
    \/ InitializeQuantumService
    \/ \E i \in 1..Len(NodeOrder) : ProbeBackend(i)
    \/ \E i \in 1..Len(NodeOrder) : ProbeStatus(i)
    \/ CreateQuantumEntanglementNetwork
    \/ ActivateInitializing
    \/ GoLive
    \/ LoopCheck
    \/ PublishOpen
    \/ PublishDump
    \/ MineNotDue
    \/ DecayQueues
    \/ Sleep
    \/ WakeLate
    \/ MineBuild("svc")
    \/ MineVote("svc")
    \/ MineAppend("svc")

LoopSpec == Init /\ [][LoopNext]_vars

----------------------------------------------------------------------------
(* The bridge specification *)

BridgeNext ==
    \/ StartServer
    \/ DiscoverNodes
    \/ StartupPost
    \/ HandleStartupRequest
    \/ StartupReply
    \/ StartupFallback
    \/ BridgeLive
    \/ \E req \in EntangleRequests : HandleEntangle(req[1], req[2])

BridgeSpec == Init /\ [][BridgeNext]_vars

(* The bridge with clients that post to /measure and /teleport and get     *)
(* /status and /network.                                                   *)
MeasureNext ==
    \/ StartServer
    \/ DiscoverNodes
    \/ StartupPost
    \/ HandleStartupRequest
    \/ StartupReply
    \/ StartupFallback
    \/ BridgeLive
    \/ \E req \in MeasureRequests : HandleMeasure(req[1], req[2])
    \/ \E req \in TeleportRequests : HandleTeleport(req[1], req[2])
    \/ HandleStatus
    \/ HandleNetworkInfo

MeasureSpec == Init /\ [][MeasureNext]_vars

(* The bridge with clients that post to /measure and a caller that         *)
(* registers nodes through add_node after the startup.                     *)
RegistryNext ==
    \/ StartServer
    \/ DiscoverNodes
    \/ StartupPost
    \/ HandleStartupRequest
    \/ StartupReply
    \/ StartupFallback
    \/ BridgeLive
    \/ \E req \in MeasureRequests : HandleMeasure(req[1], req[2])
    \/ \E node_id \in RegisterRequests : AddNode(node_id)

RegistrySpec == Init /\ [][RegistryNext]_vars

----------------------------------------------------------------------------
(* Properties *)

BlockKeys == {KeyOrder[i] : i \in 1..Len(KeyOrder)}

Chain == 1..Len(blockchain)

Pairs == quantum_state.entangled_pairs

(* C1: the blocks of the chain are numbered 1..N in order, block 1 has the *)
(* all-zero previous_hash and every later block has the stored hash of the *)
(* block before it as previous_hash.                                       *)
C1_ChainLinked ==
    \A i \in Chain :
        /\ blockchain[i]["number"] = i
        /\ i = 1 => blockchain[i]["previous_hash"] = GenesisHash
        /\ i > 1 => blockchain[i]["previous_hash"] = blockchain[i - 1]["hash"]

C1_Witness == Len(blockchain) >= 3

(* How many recorded pairs have the endpoints {a, b}. *)
PairCount(a, b) ==
    Cardinality({i \in 1..Len(Pairs) :
                    {Pairs[i].nodes[1], Pairs[i].nodes[2]} = {a, b}})

(* C2: for all nodes a and b, b occurs in a's linked-node list as often as *)
(* a occurs in b's list, and as often as there are recorded pairs with the *)
(* endpoints {a, b}.                                                       *)
C2_LinkSymmetry ==
    \A a \in DOMAIN bridge_nodes : \A b \in DOMAIN bridge_nodes :
        /\ Count(bridge_nodes[a].entangled_nodes, b)
              = Count(bridge_nodes[b].entangled_nodes, a)
        /\ Count(bridge_nodes[a].entangled_nodes, b) = PairCount(a, b)

(* C3: a step taken while no node is active never changes the chain:       *)
(* mine_block fails instead of mining with a fallback miner.               *)
C3_NoActiveNoBlock ==
    [][ActiveSet = {} => blockchain' = blockchain]_vars

(* C4: every block in the chain is complete (hash and consensus record     *)
(* included); a step that changes the chain appends exactly one block and  *)
(* leaves the pending list empty; a step of mine_block that does not       *)
(* append leaves the chain and the pending list as they were.              *)
C4_AllOrNothing ==
    [][ /\ \A i \in 1..Len(blockchain') : DOMAIN blockchain'[i] = BlockKeys
        /\ blockchain' # blockchain =>
              /\ Len(blockchain') = Len(blockchain) + 1
              /\ SubSeq(blockchain', 1, Len(blockchain)) = blockchain
              /\ pending_transactions' = <<>>
        /\ (mpc' # mpc /\ blockchain' = blockchain) =>
              pending_transactions' = pending_transactions ]_vars

C4_Witness ==
    /\ blockchain # <<>>
    /\ Last(blockchain)["transactions"] > 0
    /\ pending_transactions = <<>>

(* C5: mine_block is atomic with respect to the other mutating tasks:      *)
(* while a task is inside mine_block no other task is, the tip it has read *)
(* is still the tip of the chain, and no two blocks of the chain have the  *)
(* same number or the same previous_hash.                                  *)
C5_MineAtomic ==
    /\ \A i \in Chain : \A j \in Chain :
          i # j => /\ blockchain[i]["number"] # blockchain[j]["number"]
                   /\ blockchain[i]["previous_hash"] # blockchain[j]["previous_hash"]
    /\ \A t \in Tasks :
          mpc[t] # "none" =>
              /\ \A u \in Tasks \ {t} : mpc[u] = "none"
              /\ block_data[t]["number"] = Len(blockchain) + 1
              /\ block_data[t]["previous_hash"] =
                    (IF blockchain # <<>> THEN Last(blockchain)["hash"]
                                          ELSE GenesisHash)

C5_Witness ==
    /\ mpc["client"] = "await_consensus"
    /\ pc["svc"] = "sleeping"
    /\ is_running
    /\ blockchain # <<>>

(* C6: no step makes the chain shorter or changes a block that is already  *)
(* in it.                                                                  *)
C6_AppendOnly ==
    [][ /\ Len(blockchain') >= Len(blockchain)
        /\ \A i \in Chain : blockchain'[i] = blockchain[i] ]_vars

C6_Witness ==
    /\ Len(blockchain) >= 3
    /\ status_file.kind = "complete"
    /\ status_file.data.blockchain.totalBlocks >= 1

(* C7 as stated: the hash recomputed over all recorded fields of a block   *)
(* other than the hash (the consensus record included) is the stored hash. *)
C7_HashOverAllOtherFields ==
    \A i \in Chain :
        Sha256(JsonDumpsSorted(WithoutKeys(blockchain[i], {"hash"})))
            = blockchain[i]["hash"]

(* C7 amended: the hash recomputed over the recorded number, timestamp,    *)
(* previous_hash, transaction count, miner and nonce of a block, in key    *)
(* order, is the stored hash; the consensus record is not hashed.          *)
C7_HashOverMinedFields ==
    \A i \in Chain :
        Sha256(JsonDumpsSorted(WithoutKeys(blockchain[i], {"hash", "consensusVotes"})))
            = blockchain[i]["hash"]

C7_Witness ==
    /\ Len(blockchain) >= 2
    /\ Last(blockchain)["quantum_nonce"] = MaxNonce

(* C8: the consensus record of every block has total = the number of       *)
(* registered nodes, one validator entry per registered node in            *)
(* registration order, and valid = the number of affirmative entries,      *)
(* which is total.                                                         *)
C8_ConsensusRecord ==
    \A i \in Chain :
        LET c == blockchain[i]["consensusVotes"]
        IN  /\ c.total = Len(NodeOrder)
            /\ Len(c.validators) = Len(NodeOrder)
            /\ \A k \in 1..Len(c.validators) : c.validators[k].backend = NodeOrder[k]
            /\ c.valid = Cardinality({k \in 1..Len(c.validators) :
                                         c.validators[k].vote = "valid"})
            /\ c.valid <= c.total
            /\ c.valid = c.total

C8_Witness ==
    /\ blockchain # <<>>
    /\ \E n \in NodeNames : status[n] = "offline"
    /\ \E n \in NodeNames : status[n] = "active"

(* C9: when a block is appended while at least one node is active, the     *)
(* miner of the block is one of the active nodes.                          *)
C9_MinerActive ==
    [][(Len(blockchain') > Len(blockchain) /\ ActiveSet # {}) =>
           Last(blockchain')["miner"] \in ActiveSet]_vars

C9_Witness ==
    /\ blockchain # <<>>
    /\ status["ibm_fez"] = "offline"
    /\ status[Last(blockchain)["miner"]] = "active"

(* C10: a create-link request that names one registered node twice is      *)
(* refused with Conflict and records nothing: no pair has the same node at *)
(* both ends and no node is in its own linked-node list.                   *)
C10_SelfLinkConflict ==
    /\ (/\ last_reply.op = "entangle"
        /\ last_reply.node_a = last_reply.node_b
        /\ last_reply.node_a \in DOMAIN bridge_nodes) => last_reply.status = 409
    /\ \A i \in 1..Len(Pairs) : Pairs[i].nodes[1] # Pairs[i].nodes[2]
    /\ \A a \in DOMAIN bridge_nodes : Count(bridge_nodes[a].entangled_nodes, a) = 0

(* A step in which the server answers a POST /entangle, of a client or of  *)
(* run() itself.                                                           *)
EntangleStep ==
    /\ last_reply'.op = "entangle"
    /\ \/ requests_sent' = requests_sent + 1
       \/ ~request_handled /\ request_handled'

(* C11: a create-link request with an endpoint that is not in the registry *)
(* is answered with 404 and changes neither the pair list nor any node;    *)
(* both endpoints of every recorded pair are in the registry.              *)
C11_UnknownEndpointNotFound ==
    [][ /\ (/\ EntangleStep
            /\ \/ last_reply'.node_a \notin DOMAIN bridge_nodes
               \/ last_reply'.node_b \notin DOMAIN bridge_nodes) =>
              /\ last_reply'.status = 404
              /\ quantum_state'.entangled_pairs = Pairs
              /\ bridge_nodes' = bridge_nodes
        /\ \A i \in 1..Len(quantum_state'.entangled_pairs) :
              /\ quantum_state'.entangled_pairs[i].nodes[1] \in DOMAIN bridge_nodes'
              /\ quantum_state'.entangled_pairs[i].nodes[2] \in DOMAIN bridge_nodes'
      ]_vars

C11_Witness ==
    /\ last_reply.op = "entangle"
    /\ last_reply.status = 404
    /\ last_reply.node_b = "unknown_node"
    /\ Len(Pairs) >= 1

(* C12: whenever the status file can be read it is absent (never written)  *)
(* or holds a complete snapshot: it is never empty or partially written.   *)
C12_ReaderSeesCompleteFile ==
    status_file.kind \in {"absent", "complete"}

(* C13: when run_service has completed the publish of an iteration, the    *)
(* file holds a complete snapshot whose totalValidators is the number of   *)
(* nodes, whose validators carry each node's entangled_with list, and      *)
(* whose totalBlocks is the length of the chain, as they are in memory:    *)
(* nothing has run since the snapshot was built.                           *)
C13_SnapshotMatchesMemory ==
    (pc["svc"] = "mine_check" /\ mpc["svc"] = "none") =>
        /\ status_file.kind = "complete"
        /\ LET data == status_file.data
           IN  /\ data.network.totalValidators = Cardinality(NodeNames)
               /\ Len(data.network.validators) = Len(NodeOrder)
               /\ \A i \in 1..Len(NodeOrder) :
                     /\ data.network.validators[i].name = NodeOrder[i]
                     /\ data.network.validators[i].entangledWith
                           = entangled_with[NodeOrder[i]]
               /\ data.blockchain.totalBlocks = Len(blockchain)

C13_Witness ==
    /\ pc["svc"] = "mine_check"
    /\ mpc["svc"] = "none"
    /\ clock > 0
    /\ status_file.kind = "complete"
    /\ status_file.data.blockchain.totalBlocks >= 1
    /\ status_file.data.network.validators[1].entangledWith # <<>>
    /\ \E n \in NodeNames : status[n] = "offline"

(* C14: a step of the publish part of an iteration, failed or not, leaves  *)
(* run_service inside its loop: a failed write of the status file does not *)
(* end the service.                                                        *)
C14_FailedTickNotFatal ==
    [][pc["svc"] \in {"publish", "dump"} =>
           pc'["svc"] \in {"publish", "dump", "mine_check"}]_vars

(* C15: once stop_service has been called, at any point after run_service  *)
(* was started, the loop admits no new iteration.                          *)
C15_NoIterationAfterStop ==
    [][(pc["client"] = "stopped" /\ pc["svc"] = "loop") =>
           pc'["svc"] # "publish"]_vars

(* How many recorded pairs name a first and b second. *)
OrderedPairCount(a, b) ==
    Cardinality({i \in 1..Len(Pairs) : Pairs[i].nodes = <<a, b>>})

(* C16: in every state a request can observe, each recorded pair is in the *)
(* linked-node lists of both its endpoints (b is in a's list once for      *)
(* every pair that names a and b, in either order), and no two pairs have  *)
(* the same link id.                                                       *)
C16_AtomicLinks ==
    /\ \A a \in DOMAIN bridge_nodes : \A b \in DOMAIN bridge_nodes :
          Count(bridge_nodes[a].entangled_nodes, b)
              = OrderedPairCount(a, b) + OrderedPairCount(b, a)
    /\ \A i \in 1..Len(Pairs) : \A j \in 1..Len(Pairs) :
          (i # j /\ "id" \in DOMAIN Pairs[i] /\ "id" \in DOMAIN Pairs[j]) =>
              Pairs[i].id # Pairs[j].id

(* Two requests for the same endpoints were handled while run()'s own      *)
(* request was in flight.                                                  *)
C16_Witness ==
    /\ Len(Pairs) >= 2
    /\ "id" \in DOMAIN Pairs[1]
    /\ "id" \in DOMAIN Pairs[2]
    /\ Pairs[1].nodes = Pairs[2].nodes
    /\ bpc = "posted"

(* A step in which the server answers a POST /measure. *)
MeasureStep ==
    /\ last_reply'.op = "measure"
    /\ requests_sent' = requests_sent + 1

(* Whether a recorded pair has this link id. *)
LinkExists(entanglement_id) ==
    \E i \in 1..Len(Pairs) :
        "id" \in DOMAIN Pairs[i] /\ Pairs[i].id = entanglement_id

History == quantum_state.measurement_history

(* C17: a measurement request that names a node that is not in the         *)
(* registry, or a link id no recorded pair has, is answered with 404 and   *)
(* appends nothing to the measurement history.                             *)
C17_MeasureNotFound ==
    [][ (/\ MeasureStep
         /\ \/ last_reply'.measurement.node \notin DOMAIN bridge_nodes
            \/ ~LinkExists(last_reply'.measurement.entanglement)) =>
           /\ last_reply'.status = 404
           /\ quantum_state'.measurement_history = History ]_vars

(* C18: a step that answers a measurement request with success appends     *)
(* exactly one record, the one it returns, with result 0 or 1, and leaves  *)
(* the earlier records as they were; no other step changes the history.    *)
C18_OneRecordPerMeasurement ==
    [][ /\ (MeasureStep /\ last_reply'.status = 200) =>
              /\ Len(quantum_state'.measurement_history) = Len(History) + 1
              /\ SubSeq(quantum_state'.measurement_history, 1, Len(History)) = History
              /\ Last(quantum_state'.measurement_history) = last_reply'.measurement
              /\ last_reply'.measurement.result \in {0, 1}
        /\ ~MeasureStep => quantum_state'.measurement_history = History ]_vars

C18_Witness ==
    /\ Len(History) >= 2
    /\ History[1].result # History[2].result
    /\ History[1].node \in DOMAIN bridge_nodes
    /\ Len(bridge_nodes[History[1].node].measurement_results) >= 1

(* C19: a transfer request whose source or destination is not a registered *)
(* node is not answered with a successful transfer record.                 *)
C19_TransferNotFound ==
    (/\ last_reply.op = "teleport"
     /\ \/ last_reply.teleportation.source \notin DOMAIN bridge_nodes
        \/ last_reply.teleportation.destination \notin DOMAIN bridge_nodes) =>
        /\ last_reply.status # 200
        /\ ~last_reply.success

(* A step in which add_node returns. *)
RegisterStep ==
    /\ last_reply'.op = "add_node"
    /\ UNCHANGED <<quantum_state, bpc, pair_index, request_handled, requests_sent>>

(* C20: add_node for an id that is in the registry fails with Conflict and *)
(* leaves every registered node, its linked-node list and measurement      *)
(* results included, as it was.                                            *)
C20_DuplicateConflict ==
    [][ (RegisterStep /\ last_reply'.node_id \in DOMAIN bridge_nodes) =>
           /\ last_reply'.result = [error |-> "Conflict"]
           /\ bridge_nodes' = bridge_nodes ]_vars

(* C21: a step changes the status of a node only from initializing, and    *)
(* only to active or offline: an active or offline node keeps its status   *)
(* and no node goes back to initializing.                                  *)
C21_StatusTerminal ==
    [][\A n \in NodeNames :
          status'[n] # status[n] =>
              /\ status[n] = "initializing"
              /\ status'[n] \in {"active", "offline"}]_vars

(* C22: every recorded pair has a link id, no two pairs have the same id,  *)
(* and a step only appends to the pair list: the pairs already recorded    *)
(* stay where they are with their id, endpoints, state and strength.       *)
C22_PairsFreshImmutable ==
    [][ /\ \A i \in 1..Len(quantum_state'.entangled_pairs) :
              /\ "id" \in DOMAIN quantum_state'.entangled_pairs[i]
              /\ "strength" \in DOMAIN quantum_state'.entangled_pairs[i]
        /\ \A i \in 1..Len(quantum_state'.entangled_pairs) :
              \A j \in 1..Len(quantum_state'.entangled_pairs) :
                  i # j => quantum_state'.entangled_pairs[i].id
                              # quantum_state'.entangled_pairs[j].id
        /\ Len(quantum_state'.entangled_pairs) >= Len(Pairs)
        /\ \A i \in 1..Len(Pairs) : quantum_state'.entangled_pairs[i] = Pairs[i]
      ]_vars

(* C23: a create-link request for two distinct registered nodes succeeds   *)
(* whether or not they are linked already: it appends one pair with these  *)
(* endpoints and an id no earlier pair has, and each of the two nodes is   *)
(* recorded once more in the other's list.                                 *)
C23_NoDeduplication ==
    [][ (/\ EntangleStep
         /\ last_reply'.node_a # last_reply'.node_b
         /\ last_reply'.node_a \in DOMAIN bridge_nodes
         /\ last_reply'.node_b \in DOMAIN bridge_nodes) =>
           LET a == last_reply'.node_a
               b == last_reply'.node_b
               new == quantum_state'.entangled_pairs
           IN  /\ last_reply'.status = 200
               /\ Len(new) = Len(Pairs) + 1
               /\ Last(new).nodes = <<a, b>>
               /\ Last(new) = last_reply'.entanglement
               /\ \A i \in 1..Len(Pairs) :
                     "id" \in DOMAIN Pairs[i] => Pairs[i].id # Last(new).id
               /\ Count(bridge_nodes'[a].entangled_nodes, b)
                     = Count(bridge_nodes[a].entangled_nodes, b) + 1
               /\ Count(bridge_nodes'[b].entangled_nodes, a)
                     = Count(bridge_nodes[b].entangled_nodes, a) + 1 ]_vars

(* Three pairs with ids link ibm_fez and ibm_torino. *)
C23_Witness ==
    Cardinality({i \in 1..Len(Pairs) :
                    /\ "id" \in DOMAIN Pairs[i]
                    /\ Pairs[i].nodes = <<"ibm_fez", "ibm_torino">>}) >= 3

(* C24: when mine_block starts, the transaction count it puts in the block *)
(* is the length of the pending list; when the block is appended, its      *)
(* count is still the length the pending list had until that step, and the *)
(* pending list is empty afterwards.                                       *)
C24_TransactionCount ==
    [][ /\ \A t \in Tasks :
              (mpc[t] = "none" /\ mpc'[t] = "await_mine") =>
                  block_data'[t]["transactions"] = Len(pending_transactions)
        /\ Len(blockchain') > Len(blockchain) =>
              /\ Last(blockchain')["transactions"] = Len(pending_transactions)
              /\ Len(pending_transactions') = 0 ]_vars

C24_Witness ==
    /\ Len(blockchain) >= 2
    /\ blockchain[1]["transactions"] = MaxPending
    /\ blockchain[2]["transactions"] = 0
    /\ pending_transactions = <<>>

QueryStep(op) ==
    /\ last_reply'.op = op
    /\ requests_sent' = requests_sent + 1

(* C26: the response to GET /status reports the size of the registry and   *)
(* the length of the pair list; the response to GET /network reports the   *)
(* registered nodes, each with its linked-node list, and the pair list;    *)
(* neither request changes the registry, the nodes or the quantum state.   *)
C26_QueriesReadOnly ==
    [][ /\ QueryStep("status") =>
              /\ last_reply'.body.nodes = Cardinality(DOMAIN bridge_nodes)
              /\ last_reply'.body.entangled_pairs = Len(Pairs)
              /\ UNCHANGED <<bridge_nodes, bridge_order, quantum_state>>
        /\ QueryStep("network") =>
              /\ DOMAIN last_reply'.body.nodes = DOMAIN bridge_nodes
              /\ \A n \in DOMAIN bridge_nodes :
                    last_reply'.body.nodes[n].entangled_with
                        = bridge_nodes[n].entangled_nodes
              /\ last_reply'.body.quantum_state.entangled_pairs = Pairs
              /\ UNCHANGED <<bridge_nodes, bridge_order, quantum_state>> ]_vars

(* GET /status was answered while the startup had linked some pairs, one   *)
(* of them by the direct call.                                             *)
C26_Witness ==
    /\ last_reply.op = "status"
    /\ last_reply.body.nodes = Len(BridgeNodeOrder)
    /\ last_reply.body.entangled_pairs >= 2
    /\ FallbackCount >= 1
    /\ bpc = "posted"

C28_SnapshotBeforeMining ==
    [][ /\ (pc["svc"] = "mine_check" /\ blockchain' # blockchain) =>
              /\ status_file.kind = "complete"
              /\ status_file.data.blockchain.totalBlocks = Len(blockchain)
              /\ Len(blockchain') = Len(blockchain) + 1
              /\ status_file' = status_file
        /\ status_file'.kind = "complete" =>
              /\ status_file'.data.blockchain.totalBlocks <= Len(blockchain')
              /\ Len(blockchain') <= status_file'.data.blockchain.totalBlocks + 1
      ]_vars

(* The third block has been mined and the file still has two blocks. *)
C28_Witness ==
    /\ Len(blockchain) = 3
    /\ status_file.kind = "complete"
    /\ status_file.data.blockchain.totalBlocks = 2
    /\ pc["svc"] = "sleeping"

(* C29: once the startup of the bridge has walked through its pairs, the   *)
(* pair list has n(n-1)/2 pairs for the n registered nodes and every node  *)
(* lists every other node exactly once and never itself; the same holds    *)
(* for the entangled_with lists of the service once                        *)
(* create_quantum_entanglement_network has run.                            *)
C29_PairwiseOnce ==
    /\ bpc = "live" =>
          /\ 2 * Len(Pairs)
                = Cardinality(DOMAIN bridge_nodes) * (Cardinality(DOMAIN bridge_nodes) - 1)
          /\ \A a \in DOMAIN bridge_nodes : \A b \in DOMAIN bridge_nodes :
                Count(bridge_nodes[a].entangled_nodes, b) = (IF a = b THEN 0 ELSE 1)
    /\ pc["svc"] \in {"activate", "genesis", "go_live", "loop"} =>
          \A a \in NodeNames : \A b \in NodeNames :
              Count(entangled_with[a], b) = (IF a = b THEN 0 ELSE 1)

(* The positions of run_service before line 289. *)
BeforeActivation ==
    {"start", "entangle"} \cup {ProbeAt[n] : n \in NodeNames}
                         \cup {StatusAt[n] : n \in NodeNames}

(* C30: a block is appended only after the probe and the link creation are *)
(* over (every node lists the other nodes); the step that makes the chain  *)
(* non-empty is the genesis step of run_service and appends block number   *)
(* 1, the genesis step appends only to an empty chain, and no other block  *)
(* has number 1; the step that sets is_running finds no node initializing  *)
(* and at least one block in the chain.                                    *)
C30_StartupOrder ==
    [][ /\ blockchain' # blockchain =>
              /\ pc["svc"] \notin BeforeActivation \cup {"activate"}
              /\ \A n \in NodeNames :
                    Len(entangled_with[n]) = Cardinality(NodeNames) - 1
        /\ (blockchain = <<>> /\ blockchain' # <<>>) =>
              /\ pc["svc"] = "genesis"
              /\ Len(blockchain') = 1
              /\ blockchain'[1]["number"] = 1
        /\ (pc["svc"] = "genesis" /\ blockchain' # blockchain) => blockchain = <<>>
        /\ Cardinality({i \in 1..Len(blockchain') :
                           blockchain'[i]["number"] = 1}) <= 1
        /\ (~is_running /\ is_running') =>
              /\ \A n \in NodeNames : status[n] # "initializing"
              /\ Len(blockchain) >= 1 ]_vars

C30_Witness ==
    /\ is_running
    /\ pc["svc"] = "loop"
    /\ clock = 0
    /\ Len(blockchain) = 1
    /\ blockchain[1]["miner"] = "ibm_marrakesh"
    /\ status["ibm_fez"] = "offline"

====
